---- MODULE Spec2Model ----
(***************************************************************************)
(* Model of the mpeg4-audio-const crate (src/lib.rs): the validated        *)
(* AudioObjectType wrapper over a u8, its conversions to and from u8, its  *)
(* associated constants and its Debug rendering.                           *)
(*                                                                         *)
(* The crate is a library of pure functions, so the state machine is a     *)
(* caller holding values: Spec drives one instance through try_from,       *)
(* u8::from and Debug; SpecPair holds two instances and compares them.     *)
(***************************************************************************)
EXTENDS Integers, Sequences, FiniteSets, TLC

VARIABLES
    value,   \* Option<u8>: the byte last handed to AudioObjectType::try_from
    result,  \* Option<Result<AudioObjectType, AudioObjectTypeError>>: what it returned
    x,       \* Option<AudioObjectType>: the instance held
    byte,    \* Option<u8>: u8::from(x)
    back,    \* Option<Result<..>>: AudioObjectType::try_from(byte)
    text,    \* Option<String>: format!("{:?}", x)
    y,       \* Option<AudioObjectType>: a second instance (SpecPair)
    cmp      \* Option<..>: outcome of comparing x and y (SpecPair)

vars == <<value, result, x, byte, back, text, y, cmp>>

(***************************************************************************)
(* Rust's Option and Result.                                               *)
(***************************************************************************)
None == [tag |-> "None"]
Some(v) == [tag |-> "Some", val |-> v]
Ok(v) == [tag |-> "Ok", val |-> v]
Err(e) == [tag |-> "Err", err |-> e]

\* The values of a u8.
U8 == 0..255

(***************************************************************************)
(* enum AudioObjectTypeError { EscapeValue, TooLarge(u8) }                 *)
(***************************************************************************)
EscapeValue == [kind |-> "EscapeValue"]
TooLarge(b) == [kind |-> "TooLarge", byte |-> b]

\* struct AudioObjectType(u8): a tuple struct with the single field .0
AudioObjectType(v) == [aot |-> v]

\* pub const AOT_ESCAPE_VALUE: u8 = 0b_11111;
AOT_ESCAPE_VALUE == 31

(***************************************************************************)
(* impl From<AudioObjectType> for u8                                       *)
(***************************************************************************)
U8From_Mask5(v) == v.aot % 32

U8From(v) == v.aot

(***************************************************************************)
(* impl TryFrom<u8> for AudioObjectType: the match arms in source order.   *)
(***************************************************************************)
TryFrom_From97(v) ==
    IF v = AOT_ESCAPE_VALUE THEN Err(EscapeValue)
    ELSE IF v \in 97..255 THEN Err(TooLarge(v))
    ELSE Ok(AudioObjectType(v))

TryFrom_Clamped(v) ==
    IF v = AOT_ESCAPE_VALUE THEN Err(EscapeValue)
    ELSE IF v \in 96..255 THEN Err(TooLarge(96))
    ELSE Ok(AudioObjectType(v))

TryFrom_NoEscape(v) ==
    IF v \in 96..255 THEN Err(TooLarge(v))
    ELSE Ok(AudioObjectType(v))

TryFrom(v) ==
    IF v = AOT_ESCAPE_VALUE THEN Err(EscapeValue)
    ELSE IF v \in 96..255 THEN Err(TooLarge(v))
    ELSE Ok(AudioObjectType(v))

(***************************************************************************)
(* The implement_aot! invocation: $tag $id $desc, in source order.         *)
(***************************************************************************)
Entry(t, i, d) == [tag |-> t, id |-> i, desc |-> d]

AOT_TABLE == <<
    Entry(0, "NULL", "Null"),
    Entry(1, "AAC_MAIN", "AAC main"),
    Entry(3, "AAC_SSR", "AAC SSR"),
    Entry(4, "AAC_LTP", "AAC LTP"),
    Entry(7, "TWIN_VQ", "TwinVQ"),
    Entry(8, "CELP", "CELP"),
    Entry(9, "HVXC", "HVXC"),
    Entry(5, "SBR", "SBR"),
    Entry(6, "AAC_SCALABLE", "AAC Scalable"),
    Entry(2, "AAC_LC", "AAC LC"),
    Entry(12, "TTSI", "TTSI"),
    Entry(13, "MAIN_SYNTHETIC", "Main synthetic"),
    Entry(14, "WAVETABLE_SYNTHESIS", "Wavetable synthesis"),
    Entry(15, "GENERAL_MIDI", "General MIDI"),
    Entry(16, "ALGORITHMIC_SYNTHESIS_AND_AUDIO_FX", "Algorithmic Synthesis and Audio FX"),
    Entry(17, "ER_AAC_LC", "ER AAC LC"),
    Entry(19, "ER_AAC_LTP", "ER AAC LTP"),
    Entry(20, "ER_AAC_SCALABLE", "ER AAC Scalable"),
    Entry(21, "ER_TWIN_VQ", "ER TwinVQ"),
    Entry(22, "ER_BSAC", "ER BSAC"),
    Entry(23, "ER_AAC_LD", "ER AAC LD"),
    Entry(24, "ER_CELP", "ER CELP"),
    Entry(25, "ER_HVXC", "ER HVXC"),
    Entry(26, "ER_HILN", "ER HILN"),
    Entry(27, "ER_PARAMETRIC", "ER Parametric"),
    Entry(28, "SSC", "SSC"),
    Entry(29, "PS", "PS"),
    Entry(30, "MPEG_SURROUND", "MPEG Surround"),
    Entry(32, "LAYER1", "Layer-1"),
    Entry(34, "LAYER3", "Layer-3"),
    Entry(35, "DST", "DST"),
    Entry(36, "ALS", "ALS"),
    Entry(37, "SLS", "SLS"),
    Entry(38, "SLS_NON_CORE", "SLS non-core"),
    Entry(39, "ER_AAC_ELD", "ER AAC ELD"),
    Entry(40, "SMR_SIMPLE", "SMR Simple"),
    Entry(41, "SMR_MAIN", "SMR Main"),
    Entry(42, "USAC", "Unified Speech and Audio Coding"),
    Entry(43, "SAOC", "Spatial Audio Object Coding"),
    Entry(44, "LD_MPEG_SURROUND", "Low Delay MPEG Surround"),
    Entry(45, "SAOC_DE", "Spatial Audio Object Coding Dialogue Enhancement"),
    Entry(46, "AUDIO_SYNC", "Audio synchronization tool")
>>

\* pub const $id: AudioObjectType = AudioObjectType($tag);
AssocConst_Index(i) == AudioObjectType(i - 1)

AssocConst(i) == AudioObjectType(AOT_TABLE[i].tag)

(***************************************************************************)
(* "{}" of a u8: its decimal digits, most significant first.               *)
(***************************************************************************)
Digit(d) == <<"0", "1", "2", "3", "4", "5", "6", "7", "8", "9">>[d + 1]

RECURSIVE Display(_)
Display(n) == IF n < 10 THEN Digit(n) ELSE Display(n \div 10) \o Digit(n % 10)

(***************************************************************************)
(* impl fmt::Debug for AudioObjectType: the first arm whose $tag equals    *)
(* self.0 writes "$id($tag)"; the wildcard arm writes "RESERVED(self.0)".  *)
(***************************************************************************)
Debug_NoCode(self) ==
    LET arms == {i \in DOMAIN AOT_TABLE : AOT_TABLE[i].tag = self.aot}
    IN  IF arms # {}
        THEN AOT_TABLE[CHOOSE i \in arms : \A j \in arms : i <= j].id
        ELSE "RESERVED"

Debug_Desc(self) ==
    LET arms == {i \in DOMAIN AOT_TABLE : AOT_TABLE[i].tag = self.aot}
    IN  IF arms # {}
        THEN LET arm == AOT_TABLE[CHOOSE i \in arms : \A j \in arms : i <= j]
             IN  arm.desc \o "(" \o Display(arm.tag) \o ")"
        ELSE "RESERVED(" \o Display(self.aot) \o ")"

Debug_Below32(self) ==
    LET arms == {i \in DOMAIN AOT_TABLE :
                    AOT_TABLE[i].tag = self.aot /\ AOT_TABLE[i].tag < 32}
    IN  IF arms # {}
        THEN LET arm == AOT_TABLE[CHOOSE i \in arms : \A j \in arms : i <= j]
             IN  arm.id \o "(" \o Display(arm.tag) \o ")"
        ELSE "RESERVED(" \o Display(self.aot) \o ")"

Debug(self) ==
    LET arms == {i \in DOMAIN AOT_TABLE : AOT_TABLE[i].tag = self.aot}
    IN  IF arms # {}
        THEN LET arm == AOT_TABLE[CHOOSE i \in arms : \A j \in arms : i <= j]
             IN  arm.id \o "(" \o Display(arm.tag) \o ")"
        ELSE "RESERVED(" \o Display(self.aot) \o ")"

(***************************************************************************)
(* #[derive(PartialEq)] on a tuple struct: the fields are compared.        *)
(***************************************************************************)
PartialEq_Low5(a, b) == a.aot % 32 = b.aot % 32

PartialEq(a, b) == a.aot = b.aot

(***************************************************************************)
(* Spec: one instance, converted and rendered.                             *)
(***************************************************************************)
Init ==
    /\ value = None
    /\ result = None
    /\ x = None
    /\ byte = None
    /\ back = None
    /\ text = None
    /\ y = None
    /\ cmp = None

\* let r = AudioObjectType::try_from(b); x is r.unwrap() when r is Ok.
CallTryFrom ==
    \E b \in U8 :
        LET r == TryFrom(b)
        IN  /\ value' = Some(b)
            /\ result' = Some(r)
            /\ x' = IF r.tag = "Ok" THEN Some(r.val) ELSE None
            /\ byte' = None
            /\ back' = None
            /\ text' = None
            /\ UNCHANGED <<y, cmp>>

\* let x = AudioObjectType::$id;
UseConst ==
    \E i \in DOMAIN AOT_TABLE :
        /\ value' = None
        /\ result' = None
        /\ x' = Some(AssocConst(i))
        /\ byte' = None
        /\ back' = None
        /\ text' = None
        /\ UNCHANGED <<y, cmp>>

\* let byte: u8 = x.into();
CallInto ==
    /\ x # None
    /\ byte' = Some(U8From(x.val))
    /\ back' = None
    /\ UNCHANGED <<value, result, x, text, y, cmp>>

\* let back = AudioObjectType::try_from(byte);
CallTryFromBack ==
    /\ byte # None
    /\ back' = Some(TryFrom(byte.val))
    /\ UNCHANGED <<value, result, x, byte, text, y, cmp>>

\* let text = format!("{:?}", x);
CallDebug ==
    /\ x # None
    /\ text' = Some(Debug(x.val))
    /\ UNCHANGED <<value, result, x, byte, back, y, cmp>>

Next ==
    \/ CallTryFrom
    \/ UseConst
    \/ CallInto
    \/ CallTryFromBack
    \/ CallDebug

Spec == Init /\ [][Next]_vars

(***************************************************************************)
(* SpecPair: two instances, each from try_from or from a constant,         *)
(* compared with ==, converted with u8::from and rendered with Debug.      *)
(***************************************************************************)
PairTryFromX ==
    \E b \in U8 :
        LET r == TryFrom(b)
        IN  /\ r.tag = "Ok"
            /\ x' = Some(r.val)
            /\ cmp' = None
            /\ UNCHANGED <<value, result, byte, back, text, y>>

PairTryFromY ==
    \E b \in U8 :
        LET r == TryFrom(b)
        IN  /\ r.tag = "Ok"
            /\ y' = Some(r.val)
            /\ cmp' = None
            /\ UNCHANGED <<value, result, byte, back, text, x>>

PairConstX ==
    \E i \in DOMAIN AOT_TABLE :
        /\ x' = Some(AssocConst(i))
        /\ cmp' = None
        /\ UNCHANGED <<value, result, byte, back, text, y>>

PairConstY ==
    \E i \in DOMAIN AOT_TABLE :
        /\ y' = Some(AssocConst(i))
        /\ cmp' = None
        /\ UNCHANGED <<value, result, byte, back, text, x>>

\* (x == y, u8::from(x), u8::from(y), format!("{:?}", x), format!("{:?}", y))
Compare ==
    /\ x # None
    /\ y # None
    /\ cmp' = Some([eq |-> PartialEq(x.val, y.val),
                    bx |-> U8From(x.val), by |-> U8From(y.val),
                    dx |-> Debug(x.val), dy |-> Debug(y.val)])
    /\ UNCHANGED <<value, result, x, byte, back, text, y>>

NextPair ==
    \/ PairTryFromX
    \/ PairTryFromY
    \/ PairConstX
    \/ PairConstY
    \/ Compare

SpecPair == Init /\ [][NextPair]_vars

(***************************************************************************)
(* Helpers for the properties below.                                       *)
(***************************************************************************)
IsOk(r) == r.tag = "Ok"
IsEscapeValue(r) == r.tag = "Err" /\ r.err.kind = "EscapeValue"
IsTooLarge(r) == r.tag = "Err" /\ r.err.kind = "TooLarge"

\* The codes an AudioObjectType may hold.
ValidCodes == (0..95) \ {31}

\* The tags and identifiers of the implement_aot! entries.
Tags == {AOT_TABLE[i].tag : i \in DOMAIN AOT_TABLE}
NamedForm(id, c) == id \o "(" \o ToString(c) \o ")"
ReservedForm(c) == "RESERVED(" \o ToString(c) \o ")"

C3_RoundTrip ==
    /\ (result # None /\ x # None /\ byte # None) => byte.val = value.val
    /\ back # None => back.val = Ok(x.val)

C3_Witness ==
    /\ value = Some(95)
    /\ byte = Some(95)
    /\ back = Some(Ok(AudioObjectType(95)))

\* C4: for every named constant C of the table with code n,
\* try_from(n) = Ok(C) and u8::from(C) = n.
C4_NamedConsts ==
    \A i \in DOMAIN AOT_TABLE :
        LET n == AOT_TABLE[i].tag
        IN  /\ (value = Some(n) /\ result # None) => result.val = Ok(AssocConst(i))
            /\ (value = None /\ x = Some(AssocConst(i)) /\ byte # None)
                   => byte.val = n

C4_Witness ==
    \E i \in DOMAIN AOT_TABLE :
        /\ AOT_TABLE[i].id = "AAC_LC"
        /\ value = None
        /\ x = Some(AssocConst(i))
        /\ byte = Some(2)

\* C5 as stated: the named codes are {0..9} + {12..30} + {32} + {34..46};
\* each of them has a constant and renders in the named form, and every
\* other valid code renders "RESERVED(c)".
ClaimedNamed == (0..9) \cup (12..30) \cup {32} \cup (34..46)

C5_Original ==
    text # None =>
        LET c == x.val.aot
        IN  IF c \in ClaimedNamed
            THEN \E i \in DOMAIN AOT_TABLE :
                    /\ AOT_TABLE[i].tag = c
                    /\ text.val = NamedForm(AOT_TABLE[i].id, c)
            ELSE text.val = ReservedForm(c)

\* C5 as amended: the named codes are {0..9} + {12..17} + {19..30} + {32} +
\* {34..46} (18 has no name); each of them has a constant and renders in the
\* named form, and every other valid code (10, 11, 18, 33, 47..95) renders
\* "RESERVED(c)".
NamedCodes == (0..9) \cup (12..17) \cup (19..30) \cup {32} \cup (34..46)

C5_NamedSet ==
    /\ Tags = NamedCodes
    /\ text # None =>
        LET c == x.val.aot
        IN  IF c \in NamedCodes
            THEN \E i \in DOMAIN AOT_TABLE :
                    /\ AOT_TABLE[i].tag = c
                    /\ text.val = NamedForm(AOT_TABLE[i].id, c)
            ELSE text.val = ReservedForm(c)

C5_Witness == x = Some(AudioObjectType(18)) /\ text = Some("RESERVED(18)")

\* C6: an instance whose code n is the code of the constant ID renders exactly
\* "ID(n)", n in decimal; an instance whose code matches no entry renders
\* exactly "RESERVED(n)"; 2 renders "AAC_LC(2)", 0 "NULL(0)", 95 "RESERVED(95)".
C6_Rendering ==
    text # None =>
        LET c == x.val.aot
        IN  /\ \A i \in DOMAIN AOT_TABLE :
                   AOT_TABLE[i].tag = c => text.val = NamedForm(AOT_TABLE[i].id, c)
            /\ c \notin Tags => text.val = ReservedForm(c)
            /\ c = 2 => text.val = "AAC_LC(2)"
            /\ c = 0 => text.val = "NULL(0)"
            /\ c = 95 => text.val = "RESERVED(95)"

C6_Witness == x = Some(AudioObjectType(2)) /\ text = Some("AAC_LC(2)")

\* C7: whenever try_from(b) is Err(TooLarge(v)), v = b.
C7_Payload ==
    (result # None /\ IsTooLarge(result.val)) => result.val.err.byte = value.val

C7_Witness == value = Some(97) /\ result = Some(Err(TooLarge(97)))

C9_EqByCode == cmp # None => (cmp.val.eq <=> cmp.val.bx = cmp.val.by)

C9_Witness ==
    /\ cmp # None
    /\ cmp.val.eq = FALSE
    /\ cmp.val.bx = 2
    /\ cmp.val.by = 34

\* C10: no code and no identifier appears in two entries of the table, and
\* the Debug rendering is injective: instances with different codes render
\* differently, instances with the same code render the same.
C10_Injective ==
    /\ \A i, j \in DOMAIN AOT_TABLE :
           i # j => /\ AOT_TABLE[i].tag # AOT_TABLE[j].tag
                    /\ AOT_TABLE[i].id # AOT_TABLE[j].id
    /\ cmp # None =>
           /\ cmp.val.bx # cmp.val.by => cmp.val.dx # cmp.val.dy
           /\ cmp.val.bx = cmp.val.by => cmp.val.dx = cmp.val.dy

C10_Witness ==
    /\ cmp # None
    /\ cmp.val.bx = 10
    /\ cmp.val.by = 11
    /\ cmp.val.dx # cmp.val.dy

====
